---- MODULE Spec2Model ----
(***************************************************************************)
(* A model of the connect4_solver crate: the bit board and the array board *)
(* of src/board.rs and src/board/array_board.rs, the transposition table   *)
(* of src/transposition_table.rs and the solvers of src/solver.rs and      *)
(* src/solver/negamax_ab.rs.                                               *)
(*                                                                         *)
(* A u64 is modelled by the set of the indices of its set bits (a subset   *)
(* of 0..63), so that the 49-bit boards and their keys keep their width:   *)
(* shifts drop the bits that leave the word and addition carries.          *)
(***************************************************************************)
EXTENDS Integers, Sequences, FiniteSets, TLC

\* ------------------------------------------------------------------ bounds

\* Plies of free play after the notation has been replayed.
MaxPly == 3

\* Solves started in one run of the program.
MaxSolves == 2

\* Empty cells of a position played on from a notation that is still solved.
MaxEmpty == 12

\* Plies the reference search looks ahead from a position with more than
\* MaxEmpty empty cells.
Lookahead == 4

\* ------------------------------------------------------- program constants

WIDTH == 7
HEIGHT == 6
BITS == 64
KEY_BITS == 32
SIZE_BITS == 23

\* ------------------------------------------------ u64 as a set of bit indices

Word == 0 .. (BITS - 1)

Shl(x, k) == { b + k : b \in { a \in x : a + k < BITS } }

Shr(x, k) == { b - k : b \in { a \in x : a >= k } }

And(x, y) == x \cap y

Or(x, y) == x \cup y

Xor(x, y) == (x \ y) \cup (y \ x)

Not(x) == Word \ x

\* Binary addition, wrapping at the width of the word: bit i of the sum is
\* x_i + y_i + the carry into i, and a carry enters i when some lower bit j is
\* set in both words and every bit between j and i is set in one of them.
Add(x, y) ==
    LET both == x \cap y
        either == x \cup y
        Carry(i) == \E j \in both :
                       j < i /\ \A k \in (j + 1) .. (i - 1) : k \in either
    IN  { i \in Word : ((i \in x) # (i \in y)) # Carry(i) }

MinBit(x) == CHOOSE b \in x : \A c \in x : b <= c

\* x - 1 for a non-zero x: the lowest set bit is cleared, the bits below it set.
Sub1(x) == (x \ {MinBit(x)}) \cup { b \in Word : b < MinBit(x) }

\* Multiplication: the sum of x shifted by every set bit of y.
RECURSIVE Mul(_, _)
Mul(x, y) ==
    IF y = {} THEN {}
    ELSE Add(Shl(x, MinBit(y)), Mul(x, y \ {MinBit(y)}))

count_ones(x) == Cardinality(x)

\* Rust's integer division truncates toward zero.
TruncDiv(a, b) == IF a >= 0 THEN a \div b ELSE -((-a) \div b)

\* ------------------------------------------------------------------ Column

Column == 0 .. (WIDTH - 1)

\* impl From<char> for Column; -1, which is no column, stands for the panic
\* of the last arm.
\* Column::from with a last arm that answers Column::A and does not panic.
ColumnFrom_Lenient(c) ==
    CASE c \in {"1", "A", "a"} -> 0
      [] c \in {"2", "B", "b"} -> 1
      [] c \in {"3", "C", "c"} -> 2
      [] c \in {"4", "D", "d"} -> 3
      [] c \in {"5", "E", "e"} -> 4
      [] c \in {"6", "F", "f"} -> 5
      [] c \in {"7", "G", "g"} -> 6
      [] OTHER -> 0

ColumnFrom(c) ==
    CASE c \in {"1", "A", "a"} -> 0
      [] c \in {"2", "B", "b"} -> 1
      [] c \in {"3", "C", "c"} -> 2
      [] c \in {"4", "D", "d"} -> 3
      [] c \in {"5", "E", "e"} -> 4
      [] c \in {"6", "F", "f"} -> 5
      [] c \in {"7", "G", "g"} -> 6
      [] OTHER -> -1

\* ---------------------------------------------------------------- BitBoard

RECURSIVE bottom(_, _)
bottom(width, height) ==
    IF width = 0 THEN {}
    ELSE Or({(height + 1) * (width - 1)}, bottom(width - 1, height))

BOTTOM_MASK == bottom(WIDTH, HEIGHT)

BOARD_MASK == Mul(BOTTOM_MASK, Sub1({HEIGHT}))

BitBoard_new == [n_moves |-> 0, pos |-> {}, mask |-> {}]

bottom_mask_col(column) == {column * (HEIGHT + 1)}

column_mask(column) == Shl(Sub1({HEIGHT}), column * (HEIGHT + 1))

top_mask_col(column) == Shl({HEIGHT - 1}, column * (HEIGHT + 1))

possible_moves(b) == And(Add(b.mask, BOTTOM_MASK), BOARD_MASK)

compute_winning_position(position, mask) ==
    LET vertical == And(And(Shl(position, 1), Shl(position, 2)), Shl(position, 3))
        h1 == And(Shl(position, HEIGHT + 1), Shl(position, 2 * (HEIGHT + 1)))
        h2 == And(Shr(position, HEIGHT + 1), Shr(position, 2 * (HEIGHT + 1)))
        d1 == And(Shl(position, HEIGHT), Shl(position, 2 * HEIGHT))
        d2 == And(Shr(position, HEIGHT), Shr(position, 2 * HEIGHT))
        e1 == And(Shl(position, HEIGHT + 2), Shl(position, 2 * (HEIGHT + 2)))
        e2 == And(Shr(position, HEIGHT + 2), Shr(position, 2 * (HEIGHT + 2)))
        moves ==
            vertical
            \cup And(h1, Shl(position, 3 * (HEIGHT + 1)))
            \cup And(h1, Shr(position, HEIGHT + 1))
            \cup And(h2, Shr(position, 3 * (HEIGHT + 1)))
            \cup And(h2, Shl(position, HEIGHT + 1))
            \cup And(d1, Shl(position, 3 * HEIGHT))
            \cup And(d1, Shr(position, HEIGHT))
            \cup And(d2, Shr(position, 3 * HEIGHT))
            \cup And(d2, Shl(position, HEIGHT))
            \cup And(e1, Shl(position, 3 * (HEIGHT + 2)))
            \cup And(e1, Shr(position, HEIGHT + 2))
            \cup And(e2, Shr(position, 3 * (HEIGHT + 2)))
            \cup And(e2, Shl(position, HEIGHT + 2))
    IN  And(moves, Xor(mask, BOARD_MASK))

winning_position(b) == compute_winning_position(b.pos, b.mask)

opponent_winning_position(b) == compute_winning_position(Xor(b.pos, b.mask), b.mask)

\* is_playable that tests the guard bit above the top row.
is_playable_Guard(b, column) ==
    And(b.mask, Shl({HEIGHT}, column * (HEIGHT + 1))) = {}

is_playable(b, column) == And(b.mask, top_mask_col(column)) = {}

\* is_winning without the test that the winning cell can be played now.
is_winning_AnyCell(b, column) ==
    And(winning_position(b), column_mask(column)) # {}

is_winning(b, column) ==
    And(And(possible_moves(b), winning_position(b)), column_mask(column)) # {}

number_of_moves(b) == b.n_moves

\* play with the sum alone as the new mask.
play_NoOr(b, column) ==
    [n_moves |-> b.n_moves + 1,
     pos     |-> Xor(b.pos, b.mask),
     mask    |-> Add(b.mask, bottom_mask_col(column))]

\* play that leaves pos as it was.
play_KeepPlayer(b, column) ==
    [n_moves |-> b.n_moves + 1,
     pos     |-> b.pos,
     mask    |-> Or(b.mask, Add(b.mask, bottom_mask_col(column)))]

play(b, column) ==
    [n_moves |-> b.n_moves + 1,
     pos     |-> Xor(b.pos, b.mask),
     mask    |-> Or(b.mask, Add(b.mask, bottom_mask_col(column)))]

\* key with a bitwise or in the place of the sum.
key_Or(b) == Or(b.pos, b.mask)

key(b) == Add(b.pos, b.mask)

\* can_win_in_one_move looking at the opponent's winning cells.
can_win_in_one_move_Opponent(b) ==
    And(possible_moves(b), opponent_winning_position(b)) # {}

can_win_in_one_move(b) == And(possible_moves(b), winning_position(b)) # {}

\* Option<T>: None is the empty sequence, Some(v) the sequence of v alone.
None == <<>>

Some(v) == <<v>>

unwrap(o) == o[1]

\* possible_nonlosing_moves without the cells directly under a winning cell
\* of the opponent taken out.
\* possible_nonlosing_moves that answers every column once a cell is left.
possible_nonlosing_moves_AnyColumn(b) ==
    IF possible_moves(b) = {} THEN None
    ELSE Some([column \in Column |-> TRUE])

\* possible_nonlosing_moves that does not keep to the forced move.
possible_nonlosing_moves_Unforced(b) ==
    LET possible0 == possible_moves(b)
        opponent_win == opponent_winning_position(b)
        forced_moves == And(possible0, opponent_win)
    IN  IF forced_moves # {} /\ And(forced_moves, Sub1(forced_moves)) # {}
        THEN None
        ELSE LET possible == And(possible0, Not(Shr(opponent_win, 1)))
             IN  IF possible = {} THEN None
                 ELSE Some([column \in Column |->
                               And(possible, column_mask(column)) # {}])

possible_nonlosing_moves_NoUnder(b) ==
    LET possible0 == possible_moves(b)
        opponent_win == opponent_winning_position(b)
        forced_moves == And(possible0, opponent_win)
    IN  IF forced_moves # {} /\ And(forced_moves, Sub1(forced_moves)) # {}
        THEN None
        ELSE LET possible == IF forced_moves # {} THEN forced_moves ELSE possible0
             IN  IF possible = {} THEN None
                 ELSE Some([column \in Column |->
                               And(possible, column_mask(column)) # {}])

possible_nonlosing_moves(b) ==
    LET possible0 == possible_moves(b)
        opponent_win == opponent_winning_position(b)
        forced_moves == And(possible0, opponent_win)
    IN  IF forced_moves # {} /\ And(forced_moves, Sub1(forced_moves)) # {}
        THEN None
        ELSE LET possible1 == IF forced_moves # {} THEN forced_moves ELSE possible0
                 possible == And(possible1, Not(Shr(opponent_win, 1)))
             IN  IF possible = {} THEN None
                 ELSE Some([column \in Column |->
                               And(possible, column_mask(column)) # {}])

\* score_move counting the winning cells of the position as it stands, the
\* stone not placed.
score_move_Before(b, column) ==
    [column |-> column,
     score  |-> count_ones(compute_winning_position(b.pos, b.mask))]

score_move(b, column) ==
    LET move_bitmask == And(Add(b.mask, bottom_mask_col(column)), column_mask(column))
    IN  [column |-> column,
         score  |-> count_ones(compute_winning_position(Or(b.pos, move_bitmask), b.mask))]

\* ------------------------------------------------------ TranspositionTable

\* The bits of a number below 2^31.
ToBits(n) ==
    { i \in 0 .. 30 :
        (n \div (IF i < 16 THEN 2 ^ i ELSE (2 ^ 15) * (2 ^ (i - 15)))) % 2 = 1 }

med(min, max) == (min + max) \div 2

\* min * min > n is written min > n / min, which is the same comparison for
\* positive integers and stays inside the integers of the model checker.
RECURSIVE has_factor(_, _, _)
has_factor(n, min, max) ==
    IF min > n \div min THEN FALSE
    ELSE IF min + 1 >= max THEN n % min = 0
    ELSE has_factor(n, min, med(min, max)) \/ has_factor(n, med(min, max), max)

RECURSIVE calc_next_prime(_)
calc_next_prime(n) ==
    IF has_factor(n, 2, n) THEN calc_next_prime(n + 1) ELSE n

SIZE == calc_next_prime(2 ^ SIZE_BITS)

\* The value of the four bits of x from bit 4 * j on.
Nibble(x, j) ==
    (IF (4 * j) \in x THEN 1 ELSE 0) + (IF (4 * j + 1) \in x THEN 2 ELSE 0)
    + (IF (4 * j + 2) \in x THEN 4 ELSE 0) + (IF (4 * j + 3) \in x THEN 8 ELSE 0)

\* x % SIZE, nibble by nibble from the top of the word.
RECURSIVE ModSize(_, _, _)
ModSize(x, j, r) ==
    IF j < 0 THEN r ELSE ModSize(x, j - 1, (16 * r + Nibble(x, j)) % SIZE)

\* key as usize % SIZE
Index(k) == ModSize(k, (BITS \div 4) - 1, 0)

\* key as KeyType, with KeyType = u32
AsKeyType(k) == { b \in k : b < KEY_BITS }

\* The two boxed arrays, as the function of the slots that are not zero: a
\* slot outside the domain holds the key 0 and the score 0.
TranspositionTable_new == <<>>

ZeroEntry == [key |-> {}, score |-> 0]

Entry(t, index) == IF index \in DOMAIN t THEN t[index] ELSE ZeroEntry

\* get that answers with the score of the slot whatever key it holds.
get_AnyKey(t, k) == Some(Entry(t, Index(k)).score)

get(t, k) ==
    LET index == Index(k)
        entry == Entry(t, index).key
    IN  IF entry = AsKeyType(k) THEN Some(Entry(t, index).score) ELSE None

\* set that leaves the score of the slot as it was.
\* set that stores the score eight above the one it is given.
set_Shifted(t, k, score) ==
    LET index == Index(k)
        e == [key |-> AsKeyType(k), score |-> score + 8]
    IN  [i \in DOMAIN t \cup {index} |-> IF i = index THEN e ELSE t[i]]

set_KeyOnly(t, k, score) ==
    LET index == Index(k)
        e == [key |-> AsKeyType(k), score |-> Entry(t, index).score]
        d == IF e = ZeroEntry THEN DOMAIN t \ {index} ELSE DOMAIN t \cup {index}
    IN  [i \in d |-> IF i = index THEN e ELSE t[i]]

set(t, k, score) ==
    LET index == Index(k)
        e == [key |-> AsKeyType(k), score |-> score]
        d == IF e = ZeroEntry THEN DOMAIN t \ {index} ELSE DOMAIN t \cup {index}
    IN  [i \in d |-> IF i = index THEN e ELSE t[i]]

clear(t) == <<>>

\* ------------------------------------------------------------------ Solver

\* generate_move_order: D, E, C, F, B, G, A.
MID == WIDTH \div 2

COLUMN_ORDER ==
    [index \in 0 .. (WIDTH - 1) |->
        MID - TruncDiv((1 - 2 * (index % 2)) * (index + 1), 2)]

MIN_SCORE == -TruncDiv(WIDTH * HEIGHT, 2) + 3

\* score that counts one move fewer than were played.
score_OneMoveFewer(n_moves) == TruncDiv((WIDTH * HEIGHT + 1) - (n_moves - 1), 2)

score(n_moves) == TruncDiv((WIDTH * HEIGHT + 1) - n_moves, 2)

\* x as u8
\* A cast that keeps four bits.
AsU8_FourBits(x) == x % 16

AsU8(x) == x % 256

\* std::collections::BinaryHeap<ScoredMove>, as used by solve_impl: the
\* vector of the heap, whose element i (from 0) is data[i + 1]; the order
\* of ScoredMove compares the scores alone.
At(data, i) == data[i + 1]

Put(data, i, e) == [data EXCEPT ![i + 1] = e]

RECURSIVE SiftUpHole(_, _, _, _)
SiftUpHole(data, start, pos, e) ==
    IF pos > start /\ ~(e.score <= At(data, (pos - 1) \div 2).score)
    THEN SiftUpHole(Put(data, pos, At(data, (pos - 1) \div 2)), start,
                    (pos - 1) \div 2, e)
    ELSE Put(data, pos, e)

sift_up(data, start, pos) == SiftUpHole(data, start, pos, At(data, pos))

RECURSIVE SiftDownHole(_, _, _, _)
SiftDownHole(data, start, pos, e) ==
    LET end == Len(data)
        child == 2 * pos + 1
    IN  IF end >= 2 /\ child <= end - 2
        THEN LET c == IF At(data, child).score <= At(data, child + 1).score
                      THEN child + 1 ELSE child
             IN  SiftDownHole(Put(data, pos, At(data, c)), start, c, e)
        ELSE IF child = end - 1
        THEN sift_up(Put(Put(data, pos, At(data, child)), child, e), start, child)
        ELSE sift_up(Put(data, pos, e), start, pos)

sift_down_to_bottom(data, pos) == SiftDownHole(data, pos, pos, At(data, pos))

heap_push(data, item) == sift_up(Append(data, item), 0, Len(data))

\* pop: the move popped and the vector left.
heap_pop(data) ==
    IF data = <<>> THEN [item |-> None, data |-> data]
    ELSE LET last == data[Len(data)]
             rest == SubSeq(data, 1, Len(data) - 1)
         IN  IF rest = <<>> THEN [item |-> Some(last), data |-> rest]
             ELSE [item |-> Some(rest[1]),
                   data |-> sift_down_to_bottom(Put(rest, 0, last), 0)]

\* The for loop of solve_impl that fills the heap, from COLUMN_ORDER[index] on.
RECURSIVE FillHeap(_, _, _, _)
FillHeap(position, moves, data, index) ==
    IF index = WIDTH THEN data
    ELSE FillHeap(position, moves,
                  IF moves[COLUMN_ORDER[index]]
                  THEN heap_push(data, score_move(position, COLUMN_ORDER[index]))
                  ELSE data,
                  index + 1)

\* solve_impl from its entry to the while loop (lines 108-159): either the
\* value it returns at once or the window and the heap it enters the loop
\* with. It panics on the assertion of possible_nonlosing_moves.
\* The draw check taken two moves earlier.
\* The score of a forced loss with a division that rounds down.
loss_score_Floor(n_moves) == (-(WIDTH * HEIGHT - n_moves)) \div 2

\* Lines 114-116: the score returned when no move is non-losing.
loss_score(n_moves) == TruncDiv(-(WIDTH * HEIGHT - n_moves), 2)

draw_check_Early(position) == number_of_moves(position) >= WIDTH * HEIGHT - 4

\* Lines 118-121: the condition of the second stop of solve_impl.
draw_check(position) == number_of_moves(position) >= WIDTH * HEIGHT - 2

solve_impl_enter(position, alpha0, beta0, t) ==
    IF can_win_in_one_move(position) THEN [kind |-> "panic"]
    ELSE
    LET possible == possible_nonlosing_moves(position)
        n == number_of_moves(position)
        min == TruncDiv(-((WIDTH * HEIGHT - 2) - n), 2)
        alpha == IF alpha0 < min THEN min ELSE alpha0
        max0 == ((WIDTH * HEIGHT - 1) - n) \div 2
        cached == get(t, key(position))
        max == IF cached # None THEN unwrap(cached) + MIN_SCORE - 1 ELSE max0
        beta == IF beta0 > max THEN max ELSE beta0
    IN  IF possible = None
        THEN [kind |-> "return", at |-> "loss", value |-> loss_score(n)]
        ELSE IF draw_check(position)
        THEN [kind |-> "return", at |-> "draw", value |-> 0]
        ELSE IF alpha0 < min /\ alpha >= beta0
        THEN [kind |-> "return", at |-> "alpha", value |-> alpha]
        ELSE IF beta0 > max /\ alpha >= beta
        THEN [kind |-> "return", at |-> "beta", value |-> alpha]
        ELSE [kind |-> "loop", alpha |-> alpha, beta |-> beta,
              heap |-> FillHeap(position, unwrap(possible), <<>>, 0)]

\* The probe point taken as the middle rounded up.
ProbePoint_RoundUp(min, max) == min + TruncDiv(max - min + 1, 2)

\* The probe point of the driver loop of solve (lines 73-78).
ProbePoint(min, max) ==
    LET mid == min + TruncDiv(max - min, 2)
    IN  IF mid <= 0 /\ TruncDiv(min, 2) < mid THEN TruncDiv(min, 2)
        ELSE IF mid >= 0 /\ TruncDiv(max, 2) > mid THEN TruncDiv(max, 2)
        ELSE mid

\* ------------------------------------------------------ reference searches

Max(S) == CHOOSE m \in S : \A x \in S : x <= m

Playable(b) == { column \in Column : is_playable(b, column) }

\* Plain exhaustive negamax with the scores of section 4.2: 0 on a full
\* board, score(m) when the mover wins at once, otherwise the best of the
\* negated scores of the children.
RECURSIVE Negamax(_)
Negamax(b) ==
    IF number_of_moves(b) = WIDTH * HEIGHT THEN 0
    ELSE IF \E column \in Column : is_playable(b, column) /\ is_winning(b, column)
    THEN score(number_of_moves(b))
    ELSE Max({ -Negamax(play(b, column)) : column \in Playable(b) })

\* Stones of the player to move and of the opponent.
MoverStones(b) == number_of_moves(b) \div 2

OpponentStones(b) == number_of_moves(b) - MoverStones(b)

NeededTurns(stones) == IF stones >= 3 THEN 0 ELSE 3 - stones

WinScoreAt(m) == IF m < WIDTH * HEIGHT THEN score(m) ELSE 0

\* Negamax cut after `depth` plies: the interval <<lo, hi>> that holds the
\* score of plain negamax. Where the search is cut the mover, who cannot win
\* at once, wins at best with his next stone but one and not before his
\* fourth stone, and loses at worst to the next stone of the opponent and not
\* before the opponent's fourth stone.
RECURSIVE NegamaxBounds(_, _)
NegamaxBounds(b, depth) ==
    LET m == number_of_moves(b)
    IN  IF m = WIDTH * HEIGHT THEN <<0, 0>>
        ELSE IF can_win_in_one_move(b) THEN <<score(m), score(m)>>
        ELSE IF depth = 0
        THEN LET mine == IF NeededTurns(MoverStones(b)) > 1
                         THEN NeededTurns(MoverStones(b)) ELSE 1
             IN  <<-WinScoreAt(m + 1 + 2 * NeededTurns(OpponentStones(b))),
                   WinScoreAt(m + 2 * mine)>>
        ELSE LET children == { NegamaxBounds(play(b, column), depth - 1) :
                                 column \in Playable(b) }
             IN  <<Max({ -c[2] : c \in children }), Max({ -c[1] : c \in children })>>

\* NegamaxSolver::solve_impl of a solver made by NegamaxSolver::new(), which
\* has no table. The for loop over COLUMN_ORDER is unrolled: after(i) is
\* the state of the loop after the column COLUMN_ORDER[i - 1].
RECURSIVE NegamaxSolver_solve_impl(_, _, _)
NegamaxSolver_solve_impl(position, alpha0, beta0) ==
    LET n == number_of_moves(position)
        max == ((WIDTH * HEIGHT - 1) - n) \div 2
        beta == IF beta0 > max THEN max ELSE beta0
        Step(st, index) ==
            IF st.done \/ ~is_playable(position, COLUMN_ORDER[index]) THEN st
            ELSE LET sc == -NegamaxSolver_solve_impl(
                               play(position, COLUMN_ORDER[index]), -beta, -st.alpha)
                 IN  IF sc >= beta THEN [done |-> TRUE, alpha |-> sc]
                     ELSE [done |-> FALSE, alpha |-> IF sc > st.alpha THEN sc ELSE st.alpha]
        after1 == Step([done |-> FALSE, alpha |-> alpha0], 0)
        after2 == Step(after1, 1)
        after3 == Step(after2, 2)
        after4 == Step(after3, 3)
        after5 == Step(after4, 4)
        after6 == Step(after5, 5)
        after7 == Step(after6, 6)
    IN  IF n = WIDTH * HEIGHT THEN 0
        ELSE IF \E column \in Column :
                    is_playable(position, column) /\ is_winning(position, column)
        THEN score(n)
        ELSE IF beta0 > max /\ alpha0 >= beta THEN alpha0
        ELSE IF after1.done THEN after1.alpha
        ELSE IF after2.done THEN after2.alpha
        ELSE IF after3.done THEN after3.alpha
        ELSE IF after4.done THEN after4.alpha
        ELSE IF after5.done THEN after5.alpha
        ELSE IF after6.done THEN after6.alpha
        ELSE after7.alpha

NegamaxSolver_solve(position) ==
    NegamaxSolver_solve_impl(position, -((WIDTH * HEIGHT) \div 2),
                             (WIDTH * HEIGHT) \div 2)

\* -------------------------------------------------------------- ArrayBoard

ArrayBoard_new ==
    [slots   |-> [row \in 0 .. (HEIGHT - 1) |-> [col \in Column |-> "Empty"]],
     height  |-> [col \in Column |-> 0],
     n_moves |-> 0]

get_current_player(a) == IF a.n_moves % 2 = 0 THEN "P1" ELSE "P2"

ArrayBoard_is_playable(a, column) == a.height[column] < HEIGHT

\* The inner while loop of is_winning: the stones of `player` met from (x, y)
\* on, stepping by (dx, dy * dx), up to the first other cell or the border.
RECURSIVE Adjacent(_, _, _, _, _, _)
Adjacent(a, player, x, y, dx, dy) ==
    IF x >= 0 /\ x < WIDTH /\ y >= 0 /\ y < HEIGHT /\ a.slots[y][x] = player
    THEN 1 + Adjacent(a, player, x + dx, y + dy * dx, dx, dy)
    ELSE 0

ArrayBoard_is_winning(a, column) ==
    IF ~ArrayBoard_is_playable(a, column) THEN FALSE
    ELSE LET row == a.height[column]
             player == get_current_player(a)
             vertical ==
                 /\ row >= 3
                 /\ a.slots[row - 1][column] = player
                 /\ a.slots[row - 2][column] = player
                 /\ a.slots[row - 3][column] = player
             \* n_adjacent after dx = -1 and after dx = 1
             left(dy) == Adjacent(a, player, column - 1, row - dy, -1, dy)
             both(dy) == left(dy) + Adjacent(a, player, column + 1, row + dy, 1, dy)
         IN  vertical \/ \E dy \in {-1, 0, 1} : left(dy) >= 3 \/ both(dy) >= 3

ArrayBoard_play(a, column) ==
    IF ~ArrayBoard_is_playable(a, column) \/ ArrayBoard_is_winning(a, column)
    THEN a
    ELSE [slots   |-> [a.slots EXCEPT ![a.height[column]][column] = get_current_player(a)],
          height  |-> [a.height EXCEPT ![column] = @ + 1],
          n_moves |-> a.n_moves + 1]

\* ------------------------------------- the BitBoard of board/bitboard.rs

Legacy_new == [n_moves |-> 0, pos |-> {}, mask |-> {}]

Legacy_bottom_mask(column) == Shl({0}, column * (HEIGHT + 1))

Legacy_column_mask(column) == Shl(Sub1({HEIGHT}), column * (HEIGHT + 1))

Legacy_top_mask(column) == Shl(Shl({0}, HEIGHT - 1), column * (HEIGHT + 1))

Legacy_is_playable(b, column) == And(b.mask, Legacy_top_mask(column)) = {}

Legacy_is_winning(b, column) ==
    LET pos == Or(b.pos, And(Add(b.mask, Legacy_bottom_mask(column)),
                             Legacy_column_mask(column)))
        Four(shift) ==
            LET m == And(pos, Shr(pos, shift))
            IN  And(m, Shr(m, 2 * shift)) # {}
    IN  \/ Four(1)
        \/ Four(HEIGHT + 1)
        \/ Four(HEIGHT)
        \/ Four(HEIGHT + 2)

\* play that does not test the column before it places the stone.
Legacy_play_Unguarded(b, column) ==
    [n_moves |-> b.n_moves + 1,
     pos     |-> Xor(b.pos, b.mask),
     mask    |-> Or(b.mask, Add(b.mask, Legacy_bottom_mask(column)))]

Legacy_play(b, column) ==
    IF Legacy_is_winning(b, column) \/ ~Legacy_is_playable(b, column)
    THEN b
    ELSE [n_moves |-> b.n_moves + 1,
          pos     |-> Xor(b.pos, b.mask),
          mask    |-> Or(b.mask, Add(b.mask, Legacy_bottom_mask(column)))]

\* ------------------------------------------------------------------- state

VARIABLES
    bb,       \* the BitBoard
    ab,       \* the ArrayBoard holding the same game
    lb,       \* the BitBoard of board/bitboard.rs holding the same game
    call,     \* history: the last call of play whose return value the caller
              \* read (its column and the value returned by each board), or None
    script,   \* the characters of the notation still to replay
    free,     \* plies played after the notation
    table,    \* the TranspositionTable
    tlast,    \* history: the last call made on the table
    twritten, \* history: per slot, the last set that wrote it since new/clear
    pc,       \* where Solver::solve stands: "idle", "driver", "enter", "loop",
              \* "return" or "panic"
    stack,    \* the calls of solve_impl in progress, the innermost last
    retval,   \* the value a call of solve_impl has just returned
    drv,      \* the locals of Solver::solve
    result,   \* the SolveResult of the last solve of the position, or None
    solves    \* history: solves started, and whether the last one started on a
              \* table that was new or cleared

boardVars == <<bb, ab, lb, call, script, free>>

tableVars == <<table, tlast, twritten>>

solverVars == <<pc, stack, retval, drv, result, solves>>

vars == <<bb, ab, lb, call, script, free, table, tlast, twritten,
          pc, stack, retval, drv, result, solves>>

\* Notations replayed by from_notation; the first ones are those of the tests
\* of src/board.rs.
Notations ==
    { <<>>,
      <<"4", "3", "5", "4", "6", "2">>,
      <<"4", "4", "5", "3", "6", "2", "3", "2", "2", "1", "1", "1", "5">>,
      <<"2", "3", "3", "4", "4", "6", "5", "5", "4", "5", "1">>,
      <<"2", "2", "1", "1", "4", "7", "2", "1", "1">>,
      <<"5", "5", "2", "2", "4", "4", "6">>,
      <<"4", "6", "5", "5", "5", "6", "6", "7", "7", "1", "4", "1">> }

\* The table after TranspositionTable::new().
InitTable ==
    /\ table = TranspositionTable_new
    /\ tlast = [op |-> "new"]
    /\ twritten = <<>>

\* The solver after Solver::new(), before any solve.
InitSolver ==
    /\ pc = "idle"
    /\ stack = <<>>
    /\ retval = 0
    /\ drv = [min |-> 0, max |-> 0, mid |-> 0, nodes |-> 0, nodes_searched |-> 0]
    /\ result = None
    /\ solves = [count |-> 0, fresh |-> TRUE, warm |-> None]

Init ==
    /\ bb = BitBoard_new
    /\ ab = ArrayBoard_new
    /\ lb = Legacy_new
    /\ call = None
    /\ script \in Notations
    /\ free = 0
    /\ InitTable
    /\ InitSolver

\* One turn of the loop of from_notation, on each board.
FromNotationStep ==
    /\ script # <<>>
    /\ pc = "idle"
    /\ ColumnFrom(Head(script)) \in Column
    /\ bb' = play(bb, ColumnFrom(Head(script)))
    /\ ab' = ArrayBoard_play(ab, ColumnFrom(Head(script)))
    /\ lb' = Legacy_play(lb, ColumnFrom(Head(script)))
    /\ script' = Tail(script)
    /\ UNCHANGED <<call, free, tableVars, solverVars>>

\* A legal move: the column is playable and the move does not win.
PlayMove(column) ==
    /\ script = <<>>
    /\ pc = "idle"
    /\ free < MaxPly
    /\ is_playable(bb, column)
    /\ ~is_winning(bb, column)
    /\ bb' = play(bb, column)
    /\ ab' = ArrayBoard_play(ab, column)
    /\ lb' = Legacy_play(lb, column)
    /\ free' = free + 1
    /\ result' = None
    /\ UNCHANGED <<call, script, tableVars, pc, stack, retval, drv, solves>>

Next ==
    \/ FromNotationStep
    \/ \E column \in Column : PlayMove(column)

Spec == Init /\ [][Next]_vars

\* ------------------------------------------- the boards, called one by one

\* Calls of play made after the notation.
MaxCalls == 2

\* Notations given to from_notation of each board: the one of the tests
\* winning_move_doesnt_count, digits and letters of both cases, a column
\* filled to the top, a game played on after four in a row, and characters
\* that name no column.
BoardNotations ==
    { <<>>,
      <<"1", "2", "3", "4", "5", "1", "1", "2", "1", "5", "1", "7">>,
      <<"4", "D", "d", "e", "E", "5", "c">>,
      <<"a", "A", "1", "a", "1", "A", "B", "g", "G", "7", "7", "g">>,
      <<"1", "2", "1", "2", "1", "2", "1", "2", "3">>,
      <<"4", "8", "4">>,
      <<"f", "F", "h">>,
      <<"b", "C", "6", "H", "3">>,
      <<"0">> }

InitBoard ==
    /\ bb = BitBoard_new
    /\ ab = ArrayBoard_new
    /\ lb = Legacy_new
    /\ call = None
    /\ script \in BoardNotations
    /\ free = 0
    /\ InitTable
    /\ InitSolver

\* The last arm of Column::from, met in the loop of from_notation: the
\* call unwinds, the board it was building is dropped and nothing is
\* returned.
FromNotationPanic ==
    /\ script # <<>>
    /\ ColumnFrom(Head(script)) \notin Column
    /\ pc = "idle"
    /\ pc' = "panic"
    /\ UNCHANGED <<boardVars, tableVars, stack, retval, drv, result, solves>>

\* BitBoard::play of board.rs, called by a client that has tested
\* is_playable and reads the value returned.
BitBoardPlay(column) ==
    /\ script = <<>>
    /\ pc = "idle"
    /\ free < MaxCalls
    /\ is_playable(bb, column)
    /\ bb' = play(bb, column)
    /\ call' = Some([board |-> "BitBoard", column |-> column,
                     returned |-> <<number_of_moves(play(bb, column))>>])
    /\ free' = free + 1
    /\ UNCHANGED <<ab, lb, script, tableVars, solverVars>>

\* play of ArrayBoard and of the BitBoard of board/bitboard.rs, called on
\* any column; the values returned are read.
GuardedPlay(column) ==
    /\ script = <<>>
    /\ pc = "idle"
    /\ free < MaxCalls
    /\ ab' = ArrayBoard_play(ab, column)
    /\ lb' = Legacy_play(lb, column)
    /\ call' = Some([board |-> "guarded", column |-> column,
                     returned |-> <<ArrayBoard_play(ab, column).n_moves,
                                    Legacy_play(lb, column).n_moves>>])
    /\ free' = free + 1
    /\ UNCHANGED <<bb, script, tableVars, solverVars>>

NextBoard ==
    \/ FromNotationStep
    \/ FromNotationPanic
    \/ \E column \in Column : BitBoardPlay(column)
    \/ \E column \in Column : GuardedPlay(column)

SpecBoard == InitBoard /\ [][NextBoard]_vars

\* ------------------------------------------------- the table on its own

\* Keys given to the table: 0 (the key of the empty board), 1, the keys that
\* share their slots (a multiple of SIZE apart), the keys that share their
\* slots and their low KEY_BITS bits (a multiple of SIZE * 2^KEY_BITS
\* apart), and the key of the position "6".
TableKeys ==
    { {}, {0},
      ToBits(SIZE), Add({0}, ToBits(SIZE)),
      Shl(ToBits(SIZE), KEY_BITS), Add({0}, Shl(ToBits(SIZE), KEY_BITS)),
      {5 * (HEIGHT + 1)} }

\* Scores given to the table (u8).
TableScores == {0, 7}

SetCall(k, value) ==
    /\ table' = set(table, k, value)
    /\ tlast' = [op |-> "set", key |-> k, score |-> value]
    /\ twritten' = [i \in DOMAIN twritten \cup {Index(k)} |->
                       IF i = Index(k) THEN [key |-> k, score |-> value]
                       ELSE twritten[i]]

ClearCall ==
    /\ table' = clear(table)
    /\ tlast' = [op |-> "clear"]
    /\ twritten' = <<>>

TableSet(k, value) ==
    /\ SetCall(k, value)
    /\ UNCHANGED <<boardVars, solverVars>>

TableClear ==
    /\ tlast.op = "set"
    /\ ClearCall
    /\ UNCHANGED <<boardVars, solverVars>>

InitTableOnly ==
    /\ bb = BitBoard_new
    /\ ab = ArrayBoard_new
    /\ lb = Legacy_new
    /\ call = None
    /\ script = <<>>
    /\ free = 0
    /\ InitTable
    /\ InitSolver

NextTable ==
    \/ \E k \in TableKeys, value \in TableScores : TableSet(k, value)
    \/ TableClear

SpecTable == InitTableOnly /\ [][NextTable]_vars

\* ------------------------------------------------------ Solver::solve, run

\* Notations of the positions given to the solver: the empty board, the positions "6" and
\* "667766776677", whose stones all stand in the columns F and G, three
\* positions of 30 to 33 moves, a position of 34 moves whose solve
\* writes the slot of the position "67676676767", and a position of 41
\* moves, one cell left.
SolveNotations ==
    { <<>>,
      <<"6">>,
      <<"6", "6", "7", "7", "6", "6", "7", "7", "6", "6", "7", "7">>,
      <<"6", "2", "5", "4", "2", "1", "3", "3", "1", "3", "1", "5", "4", "1",
        "2", "6", "1", "3", "3", "7", "4", "7", "5", "2", "4", "4", "5", "7",
        "7", "7", "6", "6", "7">>,
      <<"6", "3", "1", "5", "3", "7", "4", "2", "1", "3", "4", "2", "1", "1",
        "6", "5", "4", "4", "5", "6", "2", "4", "7", "7", "4", "7", "1", "2",
        "3", "3", "2">>,
      <<"4", "1", "5", "5", "5", "3", "2", "5", "2", "5", "3", "3", "1", "4",
        "1", "2", "4", "4", "6", "7", "5", "1", "6", "6", "7", "1", "2", "6",
        "3", "4">>,
      <<"4", "5", "5", "6", "6", "5", "4", "1", "1", "7", "5", "4", "2", "4",
        "6", "2", "2", "5", "6", "4", "4", "7", "2", "3", "7", "3", "5", "7",
        "7", "7", "3", "6", "6", "2">>,
      <<"6", "2", "5", "4", "2", "1", "3", "3", "1", "3", "1", "5", "4", "1",
        "2", "6", "1", "3", "3", "7", "4", "7", "5", "2", "4", "4", "5", "7",
        "7", "7", "6", "6", "7", "1", "2", "2", "3", "4", "5", "6", "6">> }

\* Notations of the lines read after the first one.
CaseNotations ==
    { <<"6", "7", "6", "7", "6", "6", "7", "6", "7", "6", "7">>,
      <<"6", "3", "1", "5", "3", "7", "4", "2", "1", "3", "4", "2", "1", "1",
        "6", "5", "4", "4", "5", "6", "2", "4", "7", "7", "4", "7", "1", "2",
        "3", "3", "2">> }

EmptyCells(b) == WIDTH * HEIGHT - number_of_moves(b)

Top == stack[Len(stack)]

Pop == SubSeq(stack, 1, Len(stack) - 1)

\* Solver::solve, lines 60-70: the immediate win, or the bounds of the
\* driver loop.
BeginSolve ==
    /\ IF can_win_in_one_move(bb)
       THEN /\ result' = Some([score |-> score(number_of_moves(bb)),
                               nodes_searched |-> 1])
            /\ UNCHANGED <<pc, drv>>
       ELSE /\ drv' = [min |-> TruncDiv(-(WIDTH * HEIGHT - number_of_moves(bb)), 2),
                       max |-> TruncDiv(WIDTH * HEIGHT + 1 - number_of_moves(bb), 2),
                       mid |-> 0, nodes |-> 0, nodes_searched |-> 0]
            /\ pc' = "driver"
            /\ result' = None
    /\ UNCHANGED <<boardVars, tableVars, stack, retval>>

\* A call of solve. A solve is asked of the position the notation names and
\* of the positions played from it that have at most MaxEmpty empty cells.
SolveCall ==
    /\ pc = "idle"
    /\ script = <<>>
    /\ result = None
    /\ solves.count < MaxSolves
    /\ free = 0 \/ EmptyCells(bb) <= MaxEmpty
    /\ solves' = [count |-> solves.count + 1, fresh |-> table = <<>>, warm |-> None]
    /\ BeginSolve

\* The position a notation names was solved on a table kept from earlier
\* solves, the solver was cleared, and the same position is solved again;
\* the score of the first solve is kept for comparison.
SolveAgain ==
    /\ pc = "idle"
    /\ script = <<>>
    /\ free = 0
    /\ result # None
    /\ ~solves.fresh
    /\ table = <<>>
    /\ solves' = [solves EXCEPT !.fresh = TRUE, !.warm = Some(unwrap(result).score)]
    /\ BeginSolve

\* The loop of benchmark: the board of the next line is made by
\* from_notation and given to the same solver, whose table is kept.
NextCase ==
    /\ pc = "idle"
    /\ script = <<>>
    /\ free = 0
    /\ result # None
    /\ solves.count < MaxSolves
    /\ bb' = BitBoard_new
    /\ ab' = ArrayBoard_new
    /\ lb' = Legacy_new
    /\ script' \in CaseNotations
    /\ result' = None
    /\ UNCHANGED <<call, free, tableVars, pc, stack, retval, drv, solves>>

\* Lines 72-83: one more probe, a call of solve_impl with the null window.
DriverProbe ==
    /\ pc = "driver"
    /\ drv.min < drv.max
    /\ drv' = [drv EXCEPT !.mid = ProbePoint(drv.min, drv.max),
                          !.nodes_searched = 0]
    /\ stack' = <<[position |-> bb, alpha |-> ProbePoint(drv.min, drv.max),
                   beta |-> ProbePoint(drv.min, drv.max) + 1, heap |-> <<>>]>>
    /\ pc' = "enter"
    /\ UNCHANGED <<boardVars, tableVars, retval, result, solves>>

\* Lines 84-89: the probe has returned.
DriverReturn ==
    /\ pc = "return"
    /\ stack = <<>>
    /\ drv' = [drv EXCEPT !.min = IF retval > drv.mid THEN retval ELSE @,
                          !.max = IF retval > drv.mid THEN @ ELSE retval,
                          !.nodes = @ + drv.nodes_searched]
    /\ pc' = "driver"
    /\ UNCHANGED <<boardVars, tableVars, stack, retval, result, solves>>

\* Lines 92-95: the loop is over.
DriverExit ==
    /\ pc = "driver"
    /\ ~(drv.min < drv.max)
    /\ result' = Some([score |-> drv.min, nodes_searched |-> drv.nodes])
    /\ pc' = "idle"
    /\ UNCHANGED <<boardVars, tableVars, stack, retval, drv, solves>>

\* solve_impl, lines 108-159: the stop conditions, the bounds, the table and
\* the heap of the call that was just made.
Enter ==
    /\ pc = "enter"
    /\ LET e == solve_impl_enter(Top.position, Top.alpha, Top.beta, table)
       IN  /\ drv' = [drv EXCEPT !.nodes_searched = @ + 1]
           /\ CASE e.kind = "panic" ->
                     /\ pc' = "panic"
                     /\ UNCHANGED <<stack, retval>>
                [] e.kind = "return" ->
                     /\ pc' = "return"
                     /\ retval' = e.value
                     /\ stack' = Pop
                [] e.kind = "loop" ->
                     /\ pc' = "loop"
                     /\ stack' = [stack EXCEPT ![Len(stack)] =
                                     [@ EXCEPT !.alpha = e.alpha, !.beta = e.beta,
                                               !.heap = e.heap]]
                     /\ UNCHANGED retval
    /\ UNCHANGED <<boardVars, tableVars, result, solves>>

\* Lines 161-164: the next move is popped and played on a copy, and
\* solve_impl is called on it with the window negated and swapped.
Expand ==
    /\ pc = "loop"
    /\ Top.heap # <<>>
    /\ LET popped == heap_pop(Top.heap)
           column == unwrap(popped.item).column
       IN  stack' = Append([stack EXCEPT ![Len(stack)] = [@ EXCEPT !.heap = popped.data]],
                           [position |-> play(Top.position, column),
                            alpha |-> -Top.beta, beta |-> -Top.alpha,
                            heap |-> <<>>])
    /\ pc' = "enter"
    /\ UNCHANGED <<boardVars, tableVars, retval, drv, result, solves>>

\* Lines 164-169: the call on the child has returned to its caller.
ChildReturn ==
    /\ pc = "return"
    /\ stack # <<>>
    /\ IF -retval >= Top.beta
       THEN /\ retval' = -retval
            /\ stack' = Pop
            /\ UNCHANGED pc
       ELSE /\ stack' = [stack EXCEPT ![Len(stack)] =
                            [@ EXCEPT !.alpha = IF -retval > @ THEN -retval ELSE @]]
            /\ pc' = "loop"
            /\ UNCHANGED retval
    /\ UNCHANGED <<boardVars, tableVars, drv, result, solves>>

\* Lines 172-175: every move was tried; alpha is stored and returned.
Finish ==
    /\ pc = "loop"
    /\ Top.heap = <<>>
    /\ SetCall(key(Top.position), AsU8(Top.alpha - MIN_SCORE + 1))
    /\ retval' = Top.alpha
    /\ stack' = Pop
    /\ pc' = "return"
    /\ UNCHANGED <<boardVars, drv, result, solves>>

\* Solver::clear, between two solves.
SolverClear ==
    /\ pc = "idle"
    /\ table # <<>>
    /\ ClearCall
    /\ UNCHANGED <<boardVars, solverVars>>

InitSolve ==
    /\ bb = BitBoard_new
    /\ ab = ArrayBoard_new
    /\ lb = Legacy_new
    /\ call = None
    /\ script \in SolveNotations
    /\ free = 0
    /\ InitTable
    /\ InitSolver

NextSolve ==
    \/ FromNotationStep
    \/ \E column \in Column : PlayMove(column)
    \/ SolveCall
    \/ SolveAgain
    \/ NextCase
    \/ DriverProbe
    \/ DriverReturn
    \/ DriverExit
    \/ Enter
    \/ Expand
    \/ ChildReturn
    \/ Finish
    \/ SolverClear

SpecSolve == InitSolve /\ [][NextSolve]_vars

\* ------------------------------------------------------------------ claims

\* The stones of column `column` of the ArrayBoard as bits of a BitBoard.
CellBit(row, column) == row + column * (HEIGHT + 1)

\* C6: in every position reached by legal play and for every column, the bit
\* based BitBoard::is_winning agrees with the line scan of
\* ArrayBoard::is_winning on the same moves; a full column is never winning.
C6_IsWinningAgrees ==
    \A column \in Column :
        /\ is_winning(bb, column) = ArrayBoard_is_winning(ab, column)
        /\ ab.height[column] = HEIGHT => ~is_winning(bb, column)

\* Witness of C6: a position where one column wins on both boards, another
\* column is full and a third is playable without winning.
C6_Witness ==
    /\ \E column \in Column :
           is_winning(bb, column) /\ ArrayBoard_is_winning(ab, column)
    /\ \E column \in Column :
           ArrayBoard_is_playable(ab, column) /\ ~is_winning(bb, column)
    /\ \E column \in Column :
           ab.height[column] >= 3 /\ ~ArrayBoard_is_winning(ab, column)

\* The value of the seven bits of the lane of `column` in the word x.
LaneValue(x, column) ==
    LET bit(i) == IF (column * (HEIGHT + 1) + i) \in x THEN 1 ELSE 0
    IN  bit(0) + 2 * bit(1) + 4 * bit(2) + 8 * bit(3) + 16 * bit(4)
        + 32 * bit(5) + 64 * bit(6)

Pow2(n) == IF n = 0 THEN 1 ELSE 2 * (IF n = 1 THEN 1 ELSE 2 * (IF n = 2 THEN 1
           ELSE 2 * (IF n = 3 THEN 1 ELSE 2 * (IF n = 4 THEN 1 ELSE 2 * (IF n = 5
           THEN 1 ELSE 2 * (IF n = 6 THEN 1 ELSE 2))))))

\* The position a key stands for, computed from the key alone: lane by lane,
\* a lane of value v holds h stones with 2^h <= v + 1 < 2^(h+1), and the
\* stones of the player to move are the bits of v + 1 - 2^h.
KeyDecode(k) ==
    LET h(column) == CHOOSE n \in 0 .. (HEIGHT + 1) :
                        Pow2(n) <= LaneValue(k, column) + 1
                        /\ LaneValue(k, column) + 1 < Pow2(n + 1)
        p(column) == LaneValue(k, column) + 1 - Pow2(h(column))
    IN  [mask |-> { CellBit(row, column) : row \in 0 .. HEIGHT, column \in Column }
                  \cap { b \in Word : (b % (HEIGHT + 1)) < h(b \div (HEIGHT + 1)) },
         pos  |-> { b \in 0 .. (WIDTH * (HEIGHT + 1) - 1) :
                      (p(b \div (HEIGHT + 1)) \div Pow2(b % (HEIGHT + 1))) % 2 = 1 }]

\* C7: key() is injective on the positions reached by legal play: the cells
\* occupied and the cells of the player to move are recovered from the key
\* alone, so two positions that differ in either never share a key.
C7_KeyInjective ==
    KeyDecode(key(bb)) = [mask |-> bb.mask, pos |-> bb.pos]

\* Witness of C7: a position whose key differs from both of its fields
\* because the sum carried inside a lane.
C7_Witness ==
    /\ bb.n_moves >= 4
    /\ bb.pos # {}
    /\ And(key(bb), bb.mask) # bb.mask
    /\ KeyDecode(key(bb)).pos = bb.pos

\* A column is non-losing when it is playable and, once the mover's stone is
\* in it, the opponent has no winning move (on the ArrayBoard).
NonLosing(a, column) ==
    /\ ArrayBoard_is_playable(a, column)
    /\ \A reply \in Column :
           ~ArrayBoard_is_winning(ArrayBoard_play(a, column), reply)

\* C9: when the player to move cannot win in one move,
\* possible_nonlosing_moves returns the array of exactly the non-losing
\* columns, and None exactly when there is no such column; on the empty board
\* every column is true.
C9_NonLosingMoves ==
    ~can_win_in_one_move(bb) =>
        LET moves == possible_nonlosing_moves(bb)
        IN  /\ (moves = None) = (\A column \in Column : ~NonLosing(ab, column))
            /\ moves # None =>
                   \A column \in Column :
                       unwrap(moves)[column] = NonLosing(ab, column)
            /\ bb.n_moves = 0 => moves = Some([column \in Column |-> TRUE])

\* Witness of C9: the only block of an opponent threat lies directly under
\* another winning cell of the opponent, and None is returned.
C9_Witness ==
    /\ ~can_win_in_one_move(bb)
    /\ Cardinality(And(possible_moves(bb), opponent_winning_position(bb))) = 1
    /\ possible_nonlosing_moves(bb) = None

\* A second case of C9: some columns are non-losing and some playable
\* columns are not.
C9_WitnessSome ==
    /\ ~can_win_in_one_move(bb)
    /\ possible_nonlosing_moves(bb) # None
    /\ \E column \in Column :
           is_playable(bb, column)
           /\ ~unwrap(possible_nonlosing_moves(bb))[column]

\* C10: can_win_in_one_move is true exactly when some column is playable
\* and winning, and a winning column is always playable.
C10_CanWinIffWinningColumn ==
    /\ can_win_in_one_move(bb) =
           (\E column \in Column : is_playable(bb, column) /\ is_winning(bb, column))
    /\ \A column \in Column : is_winning(bb, column) => is_playable(bb, column)

\* Witness of C10: the mover can win in two columns while a full column and
\* a playable, non-winning column exist.
C10_Witness ==
    /\ can_win_in_one_move(bb)
    /\ Cardinality({ column \in Column : is_winning(bb, column) }) = 2
    /\ \E column \in Column : is_playable(bb, column) /\ ~is_winning(bb, column)

\* Is the word x below the word y?
Below(x, y) ==
    \E b \in y \ x : \A c \in Xor(x, y) : c <= b

\* x restricted to its n low bits.
LowBits(x, n) == { b \in x : b < n }

\* C3: on a table that was just constructed or cleared, get reports None for
\* every key, the key 0 and the keys whose stored fragment is zero included.
C3_EmptyTableMisses ==
    tlast.op \in {"new", "clear"} =>
        \A k \in TableKeys : get(table, k) = None

C5_SetThenGet ==
    [][tlast'.op = "set" =>
          /\ get(table', tlast'.key) = Some(tlast'.score)
          /\ \A k \in TableKeys :
                 Index(k) # Index(tlast'.key) => get(table', k) = get(table, k)]_vars

\* Witness of C5: a key was set, then a key of another slot was set, and the
\* first still answers with its score.
C5_Witness ==
    /\ tlast.op = "set"
    /\ get(table, tlast.key) = Some(tlast.score)
    /\ \E k \in TableKeys :
           /\ Index(k) # Index(tlast.key)
           /\ Index(k) \in DOMAIN twritten
           /\ twritten[Index(k)].key = k
           /\ twritten[Index(k)].score # 0
           /\ get(table, k) = Some(twritten[Index(k)].score)

\* C1 as stated: a solve started on a new or cleared table returns the score
\* of plain negamax and of the full-window NegamaxSolver::solve. For a
\* position with more than MaxEmpty empty cells the score of plain negamax
\* is known by the interval of the search cut after Lookahead plies.
C1_SolveIsExact ==
    (pc = "idle" /\ result # None /\ solves.fresh) =>
        IF EmptyCells(bb) <= MaxEmpty
        THEN /\ unwrap(result).score = Negamax(bb)
             /\ unwrap(result).score = NegamaxSolver_solve(bb)
        ELSE /\ NegamaxBounds(bb, Lookahead)[1] <= unwrap(result).score
             /\ unwrap(result).score <= NegamaxBounds(bb, Lookahead)[2]

\* C2 as stated: -((42-2)-m)/2 <= score <= (42-1-m+1)/2 for the score
\* returned for a position of m moves.
C2_AsStated ==
    (pc = "idle" /\ result # None) =>
        /\ TruncDiv(-((WIDTH * HEIGHT - 2) - number_of_moves(bb)), 2)
               <= unwrap(result).score
        /\ unwrap(result).score
               <= TruncDiv((WIDTH * HEIGHT - 1) - number_of_moves(bb) + 1, 2)

\* C2 amended: -(42-m)/2 <= score <= (43-m)/2 for the score returned for a
\* position of m moves, whatever the table held when the solve started.
C2_ScoreBounds ==
    (pc = "idle" /\ result # None) =>
        /\ TruncDiv(-(WIDTH * HEIGHT - number_of_moves(bb)), 2)
               <= unwrap(result).score
        /\ unwrap(result).score
               <= TruncDiv((WIDTH * HEIGHT + 1) - number_of_moves(bb), 2)

\* Witness of C2: a position of an odd number of moves that the mover wins
\* at once was solved, and its score is the upper bound itself.
C2_Witness ==
    /\ pc = "idle" /\ result # None
    /\ number_of_moves(bb) % 2 = 1
    /\ can_win_in_one_move(bb)
    /\ unwrap(result).score
           = TruncDiv((WIDTH * HEIGHT + 1) - number_of_moves(bb), 2)

\* A second case of C2: the mover has no non-losing move, and the score is
\* the lower bound itself.
C2_WitnessLoss ==
    /\ pc = "idle" /\ result # None
    /\ ~can_win_in_one_move(bb)
    /\ possible_nonlosing_moves(bb) = None
    /\ unwrap(result).score
           = TruncDiv(-(WIDTH * HEIGHT - number_of_moves(bb)), 2)

\* The columns in the order the heap gives them up.
RECURSIVE PopAll(_)
PopAll(data) ==
    IF data = <<>> THEN <<>>
    ELSE <<unwrap(heap_pop(data).item)>> \o PopAll(heap_pop(data).data)

\* The place of a column in COLUMN_ORDER.
OrderIndex(column) == CHOOSE index \in 0 .. (WIDTH - 1) : COLUMN_ORDER[index] = column

\* C8: the moves of a call of solve_impl are explored by descending score
\* and, among equal scores, in the order of COLUMN_ORDER.
C8_ExploredInOrder ==
    pc = "loop" =>
        LET moves == PopAll(Top.heap)
        IN  \A i, j \in 1 .. Len(moves) :
                i < j =>
                    \/ moves[i].score > moves[j].score
                    \/ /\ moves[i].score = moves[j].score
                       /\ OrderIndex(moves[i].column) < OrderIndex(moves[j].column)

\* C11: a probe solve_impl(position, a, a + 1) of the driver, made on a table
\* that only the earlier probes of the same solve have written, returns more
\* than a exactly when the score of plain negamax is more than a. For a
\* position with more than MaxEmpty empty cells the score of plain negamax is
\* known by the interval of the search cut after Lookahead plies.
C11_ProbeDecides ==
    (pc = "return" /\ stack = <<>> /\ solves.fresh) =>
        IF EmptyCells(bb) <= MaxEmpty
        THEN (retval > drv.mid) = (Negamax(bb) > drv.mid)
        ELSE /\ NegamaxBounds(bb, Lookahead)[1] > drv.mid => retval > drv.mid
             /\ NegamaxBounds(bb, Lookahead)[2] <= drv.mid => retval <= drv.mid

\* C12: the driver loop of solve ends. Every probe point lies in
\* [min, max), every iteration makes max - min smaller while min never
\* passes max, so the loop makes at most max - min iterations, and it is left
\* with min = max, which is the score returned. Every probe ends as well:
\* each call of solve_impl is on a position of one move more than its
\* caller's, and each call made takes a move off the caller's heap.
C12_DriverTerminates ==
    /\ [](pc \in {"enter", "loop", "return"} =>
              drv.min <= drv.mid /\ drv.mid < drv.max)
    /\ [](pc = "driver" => drv.min <= drv.max)
    /\ [][(pc = "return" /\ stack = <<>> /\ pc' = "driver") =>
              drv'.max - drv'.min < drv.max - drv.min]_vars
    /\ [][(pc = "driver" /\ pc' = "idle") =>
              /\ drv.min = drv.max
              /\ result' = Some([score |-> drv.min, nodes_searched |-> drv.nodes])]_vars
    /\ [](\A i \in 1 .. Len(stack) :
              /\ number_of_moves(stack[i].position) = number_of_moves(bb) + i - 1
              /\ number_of_moves(stack[i].position) <= WIDTH * HEIGHT)
    /\ [][Len(stack') = Len(stack) + 1 /\ stack # <<>> =>
              Len(stack'[Len(stack)].heap) < Len(Top.heap)]_vars

\* Witness of C12: a solve has left the loop after more than one probe, min
\* and max are equal and are the score returned.
C12_Witness ==
    /\ pc = "idle" /\ result # None
    /\ ~can_win_in_one_move(bb)
    /\ drv.min = drv.max
    /\ unwrap(result).score = drv.min
    /\ drv.nodes > drv.nodes_searched
    /\ drv.nodes_searched > 1

\* C13: the score solve returns for a position on a table kept from earlier
\* solves of other positions is the score it returns for the same position
\* on a cleared table.
C13_WarmEqualsFresh ==
    (pc = "idle" /\ result # None /\ solves.warm # None) =>
        unwrap(result).score = unwrap(solves.warm)

\* C14: in every position reached from BitBoard::new() by calls of play on
\* playable columns, pos is a subset of mask, mask holds no guard bit (row
\* HEIGHT of a column) and no bit from WIDTH * (HEIGHT + 1) on, the cells
\* taken in a column are the lowest ones, and n_moves is the number of bits
\* of mask.
C14_BitBoardShape ==
    /\ bb.pos \subseteq bb.mask
    /\ \A column \in Column : CellBit(HEIGHT, column) \notin bb.mask
    /\ \A i \in bb.mask : i < WIDTH * (HEIGHT + 1)
    /\ \A column \in Column, row \in 1 .. (HEIGHT - 1) :
           CellBit(row, column) \in bb.mask => CellBit(row - 1, column) \in bb.mask
    /\ bb.n_moves = Cardinality(bb.mask)

\* A position of the BitBoard with a full column, reached by calls of play
\* that went on after the seventh stone made four in a row.
C14_Witness ==
    /\ call # None
    /\ unwrap(call).board = "BitBoard"
    /\ \E column \in Column : ~is_playable(bb, column)
    /\ bb.n_moves >= 13
    /\ lb.n_moves < bb.n_moves

\* The lowest empty row of a column of a mask.
LowestEmpty(x, column) ==
    CHOOSE row \in 0 .. HEIGHT :
        /\ CellBit(row, column) \notin x
        /\ \A below \in 0 .. (row - 1) : CellBit(below, column) \in x

\* C15: BitBoard::play(c) on a playable column adds to mask the lowest empty
\* cell of column c and nothing else, makes pos the stones of the player who
\* did not just move, and returns the move count it found plus one.
C15_PlayEffect ==
    [][bb' # bb =>
          LET column == IF script # <<>> THEN ColumnFrom(Head(script))
                        ELSE unwrap(call').column
              cell == CellBit(LowestEmpty(bb.mask, column), column)
          IN  /\ is_playable(bb, column)
              /\ cell \notin bb.mask
              /\ LowestEmpty(bb.mask, column) < HEIGHT
              /\ bb'.mask = bb.mask \cup {cell}
              /\ bb'.pos = bb.mask \ bb.pos
              /\ number_of_moves(bb') = number_of_moves(bb) + 1
              /\ script = <<>> =>
                     unwrap(call').returned = <<number_of_moves(bb) + 1>>]_vars

\* A call of play has put a stone on a column that held stones of both
\* players, and returned the new move count.
C15_Witness ==
    /\ call # None
    /\ unwrap(call).board = "BitBoard"
    /\ unwrap(call).returned = <<bb.n_moves>>
    /\ bb.n_moves = 14
    /\ LowestEmpty(bb.mask, unwrap(call).column) >= 3
    /\ bb.pos # {}

\* The cells of the board, <<row, column>>, and its lines of four cells.
Cells == (0 .. (HEIGHT - 1)) \X Column

Directions == {<<0, 1>>, <<1, 0>>, <<1, 1>>, <<-1, 1>>}

Lines ==
    { line \in { {<<cell[1] + k * d[1], cell[2] + k * d[2]>> : k \in 0 .. 3} :
                     cell \in Cells, d \in Directions } :
        line \subseteq Cells }

\* The cells of the ArrayBoard that hold `content`.
CellsHolding(a, content) == {cell \in Cells : a.slots[cell[1]][cell[2]] = content}

\* `cell` with three cells of `stones` makes a line of four.
CompletesFour(stones, cell) ==
    \E line \in Lines : cell \in line /\ (line \ {cell}) \subseteq stones

\* The empty cells that would complete four in a row for the player to move
\* once their stone stands in `column`.
ThreatsAfter(a, column) ==
    LET placed == <<a.height[column], column>>
        mine == CellsHolding(a, get_current_player(a)) \cup {placed}
    IN  {cell \in CellsHolding(a, "Empty") \ {placed} : CompletesFour(mine, cell)}

\* C16: in every position reached by legal play and for every playable
\* column whose move does not win, score_move(c).score is the number of empty
\* cells, reachable now or not, that would complete four in a row for the
\* player to move once their stone is placed in c.
C16_ScoreCountsThreats ==
    \A column \in Column :
        (/\ ArrayBoard_is_playable(ab, column)
         /\ ~CompletesFour(CellsHolding(ab, get_current_player(ab)),
                           <<ab.height[column], column>>)) =>
            /\ score_move(bb, column).score = Cardinality(ThreatsAfter(ab, column))
            /\ score_move(bb, column).column = column

\* The position of test_move_scoring: playing C or F makes two winning
\* cells, one of them above an empty cell, and playing B makes one.
C16_Witness ==
    /\ bb.n_moves = 12
    /\ ab.n_moves = 12
    /\ score_move(bb, 2).score = 2
    /\ score_move(bb, 5).score = 2
    /\ score_move(bb, 1).score = 1
    /\ \E cell \in ThreatsAfter(ab, 5) :
           cell[1] > 0 /\ ab.slots[cell[1] - 1][cell[2]] = "Empty"
    /\ Cardinality(ThreatsAfter(ab, 1)) = 1

\* The number of stones a column holds: in a mask, and in the slots of the
\* ArrayBoard.
StonesInMask(x, column) ==
    Cardinality({row \in 0 .. (HEIGHT - 1) : CellBit(row, column) \in x})

StonesInSlots(a, column) ==
    Cardinality({row \in 0 .. (HEIGHT - 1) : a.slots[row][column] # "Empty"})

\* C17: on each of the three boards and in every position reached,
\* is_playable(c) is true iff column c holds fewer than HEIGHT stones; so
\* every column of the empty board is playable, and a column stops being
\* playable on the step that puts its HEIGHT-th stone.
C17_PlayableIffNotFull ==
    /\ [](\A column \in Column :
             /\ is_playable(bb, column) = (StonesInMask(bb.mask, column) < HEIGHT)
             /\ ArrayBoard_is_playable(ab, column) = (StonesInSlots(ab, column) < HEIGHT)
             /\ Legacy_is_playable(lb, column) = (StonesInMask(lb.mask, column) < HEIGHT))
    /\ [][\A column \in Column :
             /\ (is_playable(bb, column) /\ ~is_playable(bb', column)) =>
                    /\ StonesInMask(bb.mask, column) = HEIGHT - 1
                    /\ StonesInMask(bb'.mask, column) = HEIGHT
             /\ (ArrayBoard_is_playable(ab, column) /\ ~ArrayBoard_is_playable(ab', column)) =>
                    /\ StonesInSlots(ab, column) = HEIGHT - 1
                    /\ StonesInSlots(ab', column) = HEIGHT
             /\ (Legacy_is_playable(lb, column) /\ ~Legacy_is_playable(lb', column)) =>
                    /\ StonesInMask(lb.mask, column) = HEIGHT - 1
                    /\ StonesInMask(lb'.mask, column) = HEIGHT]_vars

\* Calls of play have put the sixth stone of column G on each board, next to
\* a column A that from_notation had filled: both are no longer playable and
\* the five other columns are.
C17_Witness ==
    /\ call # None
    /\ unwrap(call).column = 6
    /\ \A column \in {0, 6} :
           /\ ~is_playable(bb, column)
           /\ ~ArrayBoard_is_playable(ab, column)
           /\ ~Legacy_is_playable(lb, column)
    /\ \A column \in 1 .. 5 :
           /\ is_playable(bb, column)
           /\ ArrayBoard_is_playable(ab, column)
           /\ Legacy_is_playable(lb, column)

\* The three ways of writing the columns, each from the first column on.
ColumnDigits == <<"1", "2", "3", "4", "5", "6", "7">>

ColumnUpper == <<"A", "B", "C", "D", "E", "F", "G">>

ColumnLower == <<"a", "b", "c", "d", "e", "f", "g">>

\* The ordinals a character names: one ordinal, or none.
Ordinals(c) ==
    {i \in 1 .. WIDTH : c \in {ColumnDigits[i], ColumnUpper[i], ColumnLower[i]}}

\* C18: from_notation takes the characters from left to right; a character
\* among '1'..'7', 'A'..'G', 'a'..'g' is played in the column of its ordinal
\* on each board, whichever of the three forms it has; at any other character
\* the call panics: the character is not skipped, the board is not touched
\* again and nothing is done after the panic.
C18_NotationOrPanic ==
    /\ [][script # <<>> =>
              IF Ordinals(Head(script)) # {}
              THEN \E i \in Ordinals(Head(script)) :
                       /\ Ordinals(Head(script)) = {i}
                       /\ script' = Tail(script)
                       /\ pc' = "idle"
                       /\ bb' = play(bb, i - 1)
                       /\ ab' = ArrayBoard_play(ab, i - 1)
                       /\ lb' = Legacy_play(lb, i - 1)
              ELSE /\ pc' = "panic"
                   /\ script' = script
                   /\ UNCHANGED <<bb, ab, lb, call>>]_vars
    /\ [][pc = "panic" => FALSE]_vars

\* from_notation has played "4Dd" and "eE5" in the columns D and E, three
\* stones each, and then a character 'c' in column C.
C18_Witness ==
    /\ script = <<>>
    /\ pc = "idle"
    /\ call = None
    /\ StonesInMask(bb.mask, 3) = 3
    /\ StonesInMask(bb.mask, 4) = 3
    /\ StonesInMask(bb.mask, 2) = 1
    /\ bb.n_moves = 7

\* from_notation has met the '8' of "484" after it played the '4': the call
\* has panicked with the rest of the notation not read.
C18_WitnessPanic ==
    /\ pc = "panic"
    /\ script = <<"8", "4">>
    /\ bb.n_moves = 1

\* The cells whose bits are in a mask.
MaskCells(x) == {cell \in Cells : CellBit(cell[1], cell[2]) \in x}

\* play(column) has to refuse: the column is full, or its lowest empty cell
\* completes four in a row for the player to move. On the slots of the
\* ArrayBoard, and on the masks of the BitBoard of board/bitboard.rs.
MustRefuseArray(a, column) ==
    \/ StonesInSlots(a, column) = HEIGHT
    \/ CompletesFour(CellsHolding(a, get_current_player(a)),
                     <<StonesInSlots(a, column), column>>)

MustRefuseLegacy(b, column) ==
    \/ StonesInMask(b.mask, column) = HEIGHT
    \/ CompletesFour(MaskCells(b.pos), <<StonesInMask(b.mask, column), column>>)

\* C19: on the ArrayBoard and on the BitBoard of board/bitboard.rs, play(c)
\* on a column that is full or whose move would win leaves the board as it
\* was and returns the move count as it was; so neither board ever shows
\* four in a row, and number_of_moves is the number of stones on the board.
C19_GuardedPlayRefuses ==
    /\ [][(script' # script \/ (free' # free /\ bb' = bb)) =>
              LET column == IF script # <<>> THEN ColumnFrom(Head(script))
                            ELSE unwrap(call').column
              IN  /\ MustRefuseArray(ab, column) =>
                         /\ ab' = ab
                         /\ script = <<>> => unwrap(call').returned[1] = ab.n_moves
                  /\ MustRefuseLegacy(lb, column) =>
                         /\ lb' = lb
                         /\ script = <<>> => unwrap(call').returned[2] = lb.n_moves]_vars
    /\ [](/\ \A line \in Lines :
                 /\ ~(line \subseteq CellsHolding(ab, "P1"))
                 /\ ~(line \subseteq CellsHolding(ab, "P2"))
                 /\ ~(line \subseteq MaskCells(lb.pos))
                 /\ ~(line \subseteq MaskCells(lb.mask \ lb.pos))
          /\ ab.n_moves = Cardinality(Cells \ CellsHolding(ab, "Empty"))
          /\ lb.n_moves = Cardinality(lb.mask))

\* winning_move_doesnt_count: after "123451121517" the move in column A
\* wins; play(Column::A) has been called on both boards and has returned 12,
\* and the move in A is still to play.
C19_Witness ==
    /\ call # None
    /\ unwrap(call).board = "guarded"
    /\ unwrap(call).column = 0
    /\ unwrap(call).returned = <<12, 12>>
    /\ ab.n_moves = 12
    /\ lb.n_moves = 12
    /\ ArrayBoard_is_winning(ab, 0)
    /\ Legacy_is_winning(lb, 0)
    /\ StonesInSlots(ab, 0) = 5

\* play has been called on a full column of both boards, which have more
\* playable columns, and has returned the move count unchanged.
C19_WitnessFull ==
    /\ call # None
    /\ unwrap(call).board = "guarded"
    /\ StonesInSlots(ab, unwrap(call).column) = HEIGHT
    /\ StonesInMask(lb.mask, unwrap(call).column) = HEIGHT
    /\ unwrap(call).returned = <<ab.n_moves, lb.n_moves>>
    /\ free = MaxCalls
    /\ ab.n_moves = 12

\* The draw check of the call of solve_impl that is starting returns.
DrawCheckReturns ==
    /\ pc = "enter"
    /\ solve_impl_enter(Top.position, Top.alpha, Top.beta, table).kind = "return"
    /\ solve_impl_enter(Top.position, Top.alpha, Top.beta, table).at = "draw"

\* C20 as stated: the draw check of a call of solve_impl returns 0 only for a
\* position of at least WIDTH * HEIGHT - 1 moves, that is with at most one
\* empty cell.
C20_AsStated ==
    DrawCheckReturns => EmptyCells(Top.position) <= 1

\* C20, amended: the draw check of a call of solve_impl returns 0 only for a
\* position of at least WIDTH * HEIGHT - 2 moves, that is with at most two
\* empty cells, never for one with three or more; the value of the game from
\* such a position is 0, and 0 is what the call returns.
C20_DrawCheck ==
    /\ [](DrawCheckReturns =>
              /\ EmptyCells(Top.position) <= 2
              /\ Negamax(Top.position) = 0)
    /\ [][DrawCheckReturns => pc' = "return" /\ retval' = 0]_vars
    /\ [](pc = "enter" /\ EmptyCells(Top.position) >= 3 =>
              \/ solve_impl_enter(Top.position, Top.alpha, Top.beta, table).kind # "return"
              \/ solve_impl_enter(Top.position, Top.alpha, Top.beta, table).at # "draw")

\* The draw check returns for a position below the root that has two empty
\* cells, in two columns.
C20_Witness ==
    /\ DrawCheckReturns
    /\ Len(stack) > 1
    /\ EmptyCells(Top.position) = 2
    /\ Cardinality({column \in Column : is_playable(Top.position, column)}) = 2

\* The column of the move a step of the search plays: the step pushes a call,
\* and the position of the call is the caller's with one more stone.
PlayedBySearch(column) ==
    /\ pc = "loop"
    /\ Len(stack') = Len(stack) + 1
    /\ stack'[Len(stack')].position = play(Top.position, column)

\* C21: during a solve, every position given to solve_impl has at most
\* WIDTH * HEIGHT moves, the calls in progress are never more than
\* WIDTH * HEIGHT minus the moves of the root, and play is called only on a
\* column that has an empty cell and whose move does not complete four in a
\* row for the player to move.
C21_SearchPlaysLegalMoves ==
    /\ [](/\ \A i \in 1 .. Len(stack) :
                 number_of_moves(stack[i].position) <= WIDTH * HEIGHT
          /\ Len(stack) <= WIDTH * HEIGHT - number_of_moves(bb))
    /\ [][pc = "loop" /\ Len(stack') = Len(stack) + 1 =>
              \E column \in Column :
                  /\ PlayedBySearch(column)
                  /\ StonesInMask(Top.position.mask, column) < HEIGHT
                  /\ ~CompletesFour(MaskCells(Top.position.pos),
                                    <<StonesInMask(Top.position.mask, column), column>>)]_vars

\* The search is eight calls deep, on a position that has a full column
\* and seven stones more than the root.
C21_Witness ==
    /\ pc = "enter"
    /\ Len(stack) = 8
    /\ number_of_moves(Top.position) = number_of_moves(bb) + 7
    /\ \E column \in Column : ~is_playable(Top.position, column)

\* C24: solve_impl is never entered with a position in which the player to
\* move can complete four in a row with one stone, at the root or below, so
\* the assert of possible_nonlosing_moves does not fire during a solve.
C24_NoWinAtEntry ==
    /\ pc # "panic"
    /\ pc = "enter" =>
           /\ ~can_win_in_one_move(Top.position)
           /\ \A column \in Column :
                  StonesInMask(Top.position.mask, column) < HEIGHT =>
                      ~CompletesFour(MaskCells(Top.position.pos),
                                     <<StonesInMask(Top.position.mask, column), column>>)

\* solve_impl is entered on a child in which the opponent of the player to
\* move has a winning cell that cannot be played yet.
C24_Witness ==
    /\ pc = "enter"
    /\ Len(stack) > 2
    /\ opponent_winning_position(Top.position) # {}
    /\ winning_position(Top.position) # {}
    /\ ~can_win_in_one_move(Top.position)

\* The entry get finds for the position of the call that is starting, or
\* None, and the value solve_impl decodes from it.
CachedAtEntry == get(table, key(Top.position))

DecodedAtEntry == unwrap(CachedAtEntry) + MIN_SCORE - 1

\* C22: when a call of solve_impl finds an entry of the table for the key of
\* its position, the value decoded is at most the maximum of the move count,
\* (WIDTH * HEIGHT - 1 - m) / 2; and the bounds a call goes on with are
\* inside the window it was given: alpha is not lower, beta is not higher.
C22_TableOnlyTightens ==
    /\ []((pc = "enter" /\ ~can_win_in_one_move(Top.position)
              /\ CachedAtEntry # None) =>
             DecodedAtEntry <=
                 (WIDTH * HEIGHT - 1 - number_of_moves(Top.position)) \div 2)
    /\ [][(pc = "enter" /\ pc' = "loop") =>
              /\ stack'[Len(stack)].alpha >= Top.alpha
              /\ stack'[Len(stack)].beta <= Top.beta
              /\ (CachedAtEntry # None /\ Top.beta > DecodedAtEntry) =>
                     stack'[Len(stack)].beta = DecodedAtEntry]_vars

\* A call finds the entry that an earlier call wrote for the same position,
\* an entry below the maximum of the move count and below the beta given,
\* and goes on with it as its beta.
C22_Witness ==
    /\ pc = "loop"
    /\ Top.heap # <<>>
    /\ Index(key(Top.position)) \in DOMAIN twritten
    /\ twritten[Index(key(Top.position))].key = key(Top.position)
    /\ get(table, key(Top.position)) # None
    /\ Top.beta = unwrap(get(table, key(Top.position))) + MIN_SCORE - 1
    /\ Top.beta < (WIDTH * HEIGHT - 1 - number_of_moves(Top.position)) \div 2
    /\ Top.alpha < Top.beta

\* C25: the value solve_impl writes to the table, alpha - MIN_SCORE + 1 cast
\* to u8, is the number alpha - MIN_SCORE + 1 itself and lies in 1 .. 255: the
\* cast does not wrap and the value is not the 0 of an empty slot; get of the
\* same key then answers it, and score + MIN_SCORE - 1 is the alpha stored.
C25_EncodingIsExact ==
    [][(pc = "loop" /\ pc' = "return" /\ Len(stack') < Len(stack)) =>
          /\ Top.alpha - MIN_SCORE + 1 \in 1 .. 255
          /\ tlast'.op = "set"
          /\ tlast'.key = key(Top.position)
          /\ tlast'.score = Top.alpha - MIN_SCORE + 1
          /\ get(table', key(Top.position)) = Some(Top.alpha - MIN_SCORE + 1)
          /\ unwrap(get(table', key(Top.position))) + MIN_SCORE - 1 = Top.alpha
          /\ retval' = Top.alpha]_vars

\* In the solve of the empty board, the call on a position of one move has
\* written its alpha, 19, as 38.
C25_Witness ==
    /\ pc = "return"
    /\ number_of_moves(bb) = 0
    /\ Len(stack) = 1
    /\ tlast.op = "set"
    /\ Cardinality(tlast.key) = 1
    /\ tlast.score = 38
    /\ retval = 19
    /\ get(table, tlast.key) = Some(38)

\* The first stop of the call of solve_impl that is starting returns: the
\* position has no non-losing move.
ForcedLossReturns ==
    /\ pc = "enter"
    /\ solve_impl_enter(Top.position, Top.alpha, Top.beta, table).kind = "return"
    /\ solve_impl_enter(Top.position, Top.alpha, Top.beta, table).at = "loss"

\* C23: for every move count m of 0 .. WIDTH * HEIGHT - 1, the score of an
\* immediate win, score(m), is at least 1 and score(m + 1) is not above it;
\* the score of a forced loss at m moves is -score(m + 1), in the formula and
\* in every call of solve_impl that returns it.
C23_ScoreConvention ==
    /\ \A m \in 0 .. (WIDTH * HEIGHT - 1) :
           /\ score(m) >= 1
           /\ score(m + 1) <= score(m)
           /\ 2 * score(m) \in {WIDTH * HEIGHT + 1 - m, WIDTH * HEIGHT - m}
           /\ loss_score(m) = -score(m + 1)
    /\ score(6) = 18 /\ score(7) = 18 /\ score(34) = 4 /\ score(35) = 4
    /\ ForcedLossReturns =>
           solve_impl_enter(Top.position, Top.alpha, Top.beta, table).value =
               -score(number_of_moves(Top.position) + 1)

\* solve_impl returns a forced loss for a position of an odd number of
\* moves, where the division truncates, and for one below the root.
C23_Witness ==
    /\ ForcedLossReturns
    /\ number_of_moves(Top.position) % 2 = 1
    /\ Len(stack) > 1
    /\ loss_score(number_of_moves(Top.position)) < 0

\* The value decoded from what get answers for the key of a position.
DecodedFor(position) == unwrap(get(table, key(position))) + MIN_SCORE - 1

\* A lower bound of the score of plain negamax of a position: the score
\* itself when at most MaxEmpty cells are empty, otherwise the low end of
\* the interval of the search cut after Lookahead plies.
ScoreAtLeast(position) ==
    IF EmptyCells(position) <= MaxEmpty THEN Negamax(position)
    ELSE NegamaxBounds(position, Lookahead)[1]

\* C26: in every state of a sequence of solves that starts on a new or
\* cleared table, what get answers for the key of a position reached by
\* legal play decodes to a value that is not below the score of the position.
\* Stated of the position given to solve, between two solves, and of the
\* position of a call of solve_impl that is starting.
C26_TableIsSound ==
    /\ (pc = "idle" /\ script = <<>> /\ get(table, key(bb)) # None) =>
           DecodedFor(bb) >= ScoreAtLeast(bb)
    /\ (pc = "enter" /\ get(table, key(Top.position)) # None) =>
           DecodedFor(Top.position) >= ScoreAtLeast(Top.position)

====
